---- MODULE Spec2Model ----
(***************************************************************************)
(* Model of src/api/window/window.ts (js-adapter): the window creation     *)
(* handshake of _Window.createWindow, the poison-on-close discipline of    *)
(* _Window.close, and the simple one-RPC operations of a window handle.    *)
(*                                                                         *)
(* JavaScript is single threaded: a macrotask (a caller's synchronous      *)
(* block, the arrival of an RPC reply, the delivery of a notification)     *)
(* runs to completion and then the promise reaction jobs it queued run in  *)
(* FIFO order before the next macrotask starts.  The variable jobs is that *)
(* microtask queue; macrotask actions are enabled only when it is empty.   *)
(***************************************************************************)
EXTENDS Integers, Sequences, FiniteSets, TLC

\* ------------------------------------------------------------------ bounds
MaxCalls == 2        \* create calls made by the caller
MaxDeliver == 2      \* constructor-callback notifications the runtime emits
MaxOps == 3          \* method invocations on established handles
MaxWraps == 2        \* calls of wrap, wrapSync, getCurrent, getCurrentSync

\* ------------------------------------------------------------- value space
Calls == 1..MaxCalls
Names == {"w1", "w2"}
Undefined == "undefined"

\* The value of a promise that settles with nothing (Promise<void>)
Void == [kind |-> "undefined"]

\* wire.me / this.me: the identity of the process hosting the client
me == [uuid |-> "app", name |-> "app"]

\* obj.field in JavaScript: undefined when the property is absent
Get(obj, field) == IF field \in DOMAIN obj THEN obj[field] ELSE Undefined

\* Option bags handed to create().  A property the caller left unset is
\* absent from the record, as it is absent from the JavaScript object.
OptionInputs ==
    { [name |-> "w1"],
      [name |-> "w2", waitForPageLoad |-> TRUE, autoShow |-> FALSE] }

\* Payloads of the 'fire-constructor-callback' notification.  The data
\* fields are opaque to the client and are modelled as strings.
RespOk ==
    [success |-> TRUE,
     data |-> [message |-> "", httpResponseCode |-> "200", apiInjected |-> "true"]]
RespFail1 ==
    [success |-> FALSE,
     data |-> [message |-> "load failed", networkErrorCode |-> "-105", stack |-> "at load"]]
Responses == {RespOk, RespFail1}

\* Rejection values of environment.createChildWindow
RpcErrors == {[kind |-> "error", reason |-> "E_CREATE"]}

\* What environment.getWebWindow(identity).fin.__internal_ gives: the hook is
\* there, getWebWindow throws (cross-origin child), or the hook is absent.
ChildContexts == {"hook", "throws", "absent"}

\* ---------------------------------------------------------------- promises
Pending == [state |-> "pending"]
Fulfilled(v) == [state |-> "fulfilled", value |-> v]
Rejected(v) == [state |-> "rejected", value |-> v]
IsPending(p) == p.state = "pending"
IsFulfilled(p) == p.state = "fulfilled"
IsRejected(p) == p.state = "rejected"
IsSettled(p) == p.state \in {"fulfilled", "rejected"}

\* resolve(v) / reject(v) of a promise: a settled promise ignores them
Settle(p, q) == IF IsPending(p) THEN q ELSE p

NoCall == [state |-> "none"]

VARIABLES
    ncalls,          \* number of create calls made so far
    win,             \* win[c]: identity of the _Window built by create call c
    given,           \* given[c]: the options as the caller passed them
    rpcOptions,      \* rpcOptions[c]: the options createChildWindow received
    listeners,       \* listeners[n]: calls whose fireConstructor is registered
                     \*   on the emitter of the window named n
    pageResponse,    \* pageResponse[c]: the promise of line 563
    windowCreation,  \* windowCreation[c]: the promise of line 601
    joined,          \* joined[c]: Promise.all([pageResponse, windowCreation])
    chained,         \* chained[c]: the promise returned by .then(...)
    outer,           \* outer[c]: the promise createWindow returns
    observed,        \* observed[c]: what the caller's continuation received
    hookAttempts,    \* hookAttempts[c]: times the try block of line 609 ran
    hookCalls,       \* hookCalls[c]: openerSuccessCBCalled() invocations
    childContext,    \* childContext[c]: what getWebWindow gave at the attempt
    atHook,          \* atHook[c]: the returned promise as it was when the try
                     \*   block of line 609 was entered
    fired,           \* fired[c]: executions of call c's fireConstructor
    seen,            \* seen[c]: notifications addressed to call c's window
    arrivals,        \* arrivals[c]: the completion sources of call c in the
                     \*   order they settled ("rpc", "notice"), kept by the
                     \*   logged steps only
    delivered,       \* notifications emitted so far
    jobs             \* the microtask queue

createVars == <<ncalls, win, given, rpcOptions, listeners, pageResponse, windowCreation,
                joined, chained, outer, observed, hookAttempts, hookCalls,
                childContext, atHook, fired, seen, arrivals, delivered, jobs>>

\* State of the operations on established handles (see Invoke, Reply)
VARIABLES
    proto,           \* proto[h]: the prototype of handle object h
    wire,            \* the sendAction calls made so far, in order
    ops,             \* the method invocations made so far, in order
    wraps            \* the calls of the handle factories made so far, in order

opsVars == <<proto, wire, ops, wraps>>

vars == <<createVars, opsVars>>

Job(kind, c) == [kind |-> kind, call |-> c]
HeadIs(kind, c) == jobs # <<>> /\ Head(jobs) = Job(kind, c)
Started(c) == c <= ncalls

\* Calls of a set in the order their listeners were registered
RECURSIVE InOrder(_)
InOrder(S) ==
    IF S = {} THEN <<>>
    ELSE LET c == CHOOSE x \in S : \A y \in S : x <= y
         IN <<c>> \o InOrder(S \ {c})

RECURSIVE MapJobs(_, _)
MapJobs(kind, s) ==
    IF s = <<>> THEN <<>> ELSE <<Job(kind, Head(s))>> \o MapJobs(kind, Tail(s))

ListenerKeys == Names \cup {me.name}

\* --------------------------------------------------- the code, as operators

\* Variant: every created handle takes the host's own name
CreateIdentityShared(options) == [uuid |-> me.uuid, name |-> me.name]

\* _WindowModule.create: the identity of the handle it constructs
CreateIdentity(options) == [uuid |-> me.uuid, name |-> options.name]

\* Variant: a falsy autoShow counts as unset
SetDefaultsFalsy(options) ==
    LET o1 == IF "waitForPageLoad" \notin DOMAIN options
              THEN options @@ [waitForPageLoad |-> FALSE] ELSE options
    IN IF "autoShow" \notin DOMAIN o1 \/ ~o1.autoShow
       THEN [autoShow |-> TRUE] @@ o1 ELSE o1

\* Variant: url gets its documented default as well
SetDefaultsWithUrl(options) ==
    LET o1 == IF "waitForPageLoad" \notin DOMAIN options
              THEN options @@ [waitForPageLoad |-> FALSE] ELSE options
        o2 == IF "autoShow" \notin DOMAIN o1 THEN o1 @@ [autoShow |-> TRUE] ELSE o1
    IN IF "url" \notin DOMAIN o2 THEN o2 @@ [url |-> "about:blank"] ELSE o2

\* createWindow, "set defaults": an unset waitForPageLoad / autoShow is
\* materialized before the options reach createChildWindow
SetDefaults(options) ==
    LET o1 == IF "waitForPageLoad" \notin DOMAIN options
              THEN options @@ [waitForPageLoad |-> FALSE] ELSE options
    IN IF "autoShow" \notin DOMAIN o1 THEN o1 @@ [autoShow |-> TRUE] ELSE o1

\* Variant: the registration is not in place when the call returns
onDeferred(registered, c) == registered

\* EmitterBase.on / removeListener: local registration on the emitter that is
\* scoped to the handle's identity
on(registered, c) == registered \cup {c}
removeListener(registered, c) == registered \ {c}

\* Variant: the failure payload takes its stack from the message
fireConstructorWrongStack(response) ==
    LET success == response.success
        responseData == response.data
        message == Get(responseData, "message")
        cbPayload ==
            IF success
            THEN [httpResponseCode |-> Get(responseData, "httpResponseCode"),
                  apiInjected |-> Get(responseData, "apiInjected")]
            ELSE [message |-> Get(responseData, "message"),
                  networkErrorCode |-> Get(responseData, "networkErrorCode"),
                  stack |-> Get(responseData, "message")]
    IN [message |-> message, cbPayload |-> cbPayload, success |-> success]

\* fireConstructor: the value it resolves pageResponse with
fireConstructor(response) ==
    LET success == response.success
        responseData == response.data
        message == Get(responseData, "message")
        cbPayload ==
            IF success
            THEN [httpResponseCode |-> Get(responseData, "httpResponseCode"),
                  apiInjected |-> Get(responseData, "apiInjected")]
            ELSE [message |-> Get(responseData, "message"),
                  networkErrorCode |-> Get(responseData, "networkErrorCode"),
                  stack |-> Get(responseData, "stack")]
    IN [message |-> message, cbPayload |-> cbPayload, success |-> success]

\* Variant: pageResponse is born resolved instead of waiting for the listener
NewPageResponseSettled == Fulfilled(fireConstructor(RespOk))

\* The promise createWindow starts pageResponse as (line 563): pending until
\* the listener runs
NewPageResponse == Pending

\* Variant: the listener stays registered after it ran
ListenersAfterFireKept(registered, c) == registered

\* fireConstructor: the registrations left after listener c ran
\* (this.removeListener(CONSTRUCTOR_CB_TOPIC, fireConstructor))
ListenersAfterFire(registered, c) == removeListener(registered, c)

\* Variant: the join never fulfils
JoinReadyNever(page, rpc) == FALSE

\* Variant: only pageResponse is joined
JoinReadyPageOnly(page, rpc) == IsFulfilled(page)

\* Promise.all([pageResponse, windowCreation]) fulfils once both inputs have
JoinReady(page, rpc) == IsFulfilled(page) /\ IsFulfilled(rpc)

\* Variant: a rejected input rejects the join only once the other has settled
JoinFailsWhenBothSettled(page, rpc) == IsRejected(rpc) /\ IsSettled(page)

\* Promise.all rejects as soon as one input rejects (pageResponse has no
\* reject path, so only windowCreation can)
JoinFails(page, rpc) == IsRejected(rpc)

\* Variant: the handler resolves whatever the page reported
JoinOutcomeAlwaysResolve(handle, pageResolve) == Fulfilled(handle)

\* The .then handler, lines 603-608: what it settles the returned promise with
JoinOutcome(handle, pageResolve) ==
    IF pageResolve.success THEN Fulfilled(handle) ELSE Rejected(pageResolve)

\* What a failed property lookup or a throwing getWebWindow raises
TypeError == [kind |-> "error", reason |-> "TypeError"]

\* Variant: the hook is tried first and outside any try/catch
ThenHandlerHookFirst(p, handle, pageResolve, context) ==
    IF context = "hook"
    THEN [outer |-> Settle(p, JoinOutcome(handle, pageResolve)),
          attempts |-> 1, calls |-> 1, thrown |-> FALSE, atHook |-> p]
    ELSE [outer |-> p, attempts |-> 1, calls |-> 0, thrown |-> TRUE, atHook |-> p]

\* Variant: the hook is tried, inside try/catch, before the promise is settled
ThenHandlerHookThenSettle(p, handle, pageResolve, context) ==
    [outer |-> Settle(p, JoinOutcome(handle, pageResolve)),
     attempts |-> 1,
     calls |-> IF context = "hook" THEN 1 ELSE 0,
     thrown |-> FALSE,
     atHook |-> p]

\* Variant: the hook is tried before the promise is settled and again after
ThenHandlerHookTwice(p, handle, pageResolve, context) ==
    [outer |-> Settle(p, JoinOutcome(handle, pageResolve)),
     attempts |-> 2,
     calls |-> IF context = "hook" THEN 2 ELSE 0,
     thrown |-> FALSE,
     atHook |-> p]

\* The whole .then handler, lines 603-619, run on promise p of a create call
\* whose child context is `context`: first resolve/reject, then the
\* openerSuccessCBCalled attempt inside try/catch.  thrown tells whether an
\* exception leaves the handler.
ThenHandler(p, handle, pageResolve, context) ==
    [outer |-> Settle(p, JoinOutcome(handle, pageResolve)),
     attempts |-> 1,
     calls |-> IF context = "hook" THEN 1 ELSE 0,
     thrown |-> FALSE,
     atHook |-> Settle(p, JoinOutcome(handle, pageResolve))]

\* Variant: the chain's rejection is dropped
CatchOutcomeSwallow(p, q) == p

\* .catch(reject), line 620: the effect on the returned promise p of the
\* settlement q of the chain
CatchOutcome(p, q) == IF IsRejected(q) THEN Settle(p, Rejected(q.value)) ELSE p

\* Variant: create resolves with a handle of the hosting window
HandleOfHost(c) == [kind |-> "window", identity |-> me]

\* The handle a create call resolves with (resolve(this))
Handle(c) == [kind |-> "window", identity |-> win[c]]

\* ------------------------------------------- operations on a handle, as code

\* Handle objects obtained by wrapSync(identity)
Handles == {"h1", "h2"}
IdentityOf(h) == IF h = "h1" THEN [uuid |-> "app", name |-> "w1"]
               ELSE [uuid |-> "app", name |-> "w2"]

\* Variant: the operation's fields are merged over the identity
AssignFieldsLast(fields, id) == fields @@ id

\* Object.assign({}, fields, id): the properties of the later source win
Assign(fields, id) == id @@ fields

\* The prototype chain of a handle object: _Window.prototype carries every
\* method of the class, null carries none
WindowPrototype == "_Window.prototype"
NullPrototype == "null"
HasMethod(p, method) == p = WindowPrototype

\* Variant: close leaves the handle as it was
ProtoAfterCloseKept(p) == p

\* close(), line 725: the prototype of the handle after the reply's handler ran
ProtoAfterClose(p) == NullPrototype

\* Method calls the caller makes
Invocations ==
    { [method |-> "close", force |-> f] : f \in BOOLEAN }
    \cup { [method |-> "focus"], [method |-> "getBounds"] }

\* Math.floor on numbers kept in half units (3 stands for 1.5, -1 for -0.5)
MathFloor(x) == 2 * (x \div 2)

\* A parameter with a default value: the default applies when the caller
\* passed nothing
Arg(inv, param, default) == IF param \in DOMAIN inv THEN inv[param] ELSE default
DefaultMovement == [moveIndependently |-> FALSE]

\* The getters: sendAction(topic, this.identity).then(({payload}) => payload.data)
GetterTopics ==
    [getAllFrames |-> "get-all-frames",
     getBounds |-> "get-window-bounds",
     getNativeId |-> "get-window-native-id",
     getInfo |-> "get-window-info",
     getOptions |-> "get-window-options",
     getState |-> "get-window-state",
     isShowing |-> "is-window-showing"]
Getters == DOMAIN GetterTopics

\* The topic and payload each method hands to wire.sendAction
Topic(inv) ==
    IF inv.method \in Getters THEN GetterTopics[inv.method]
    ELSE CASE inv.method = "close" -> "close-window"
           [] inv.method = "focus" -> "focus-window"
           [] inv.method = "getGroup" -> "get-window-group"
           [] inv.method = "joinGroup" -> "join-window-group"
           [] inv.method = "moveBy" -> "move-window-by"
           [] inv.method = "moveTo" -> "move-window"
           [] inv.method = "resizeBy" -> "resize-window-by"
           [] inv.method = "resizeTo" -> "resize-window"
           [] inv.method = "setBounds" -> "set-window-bounds"
           [] inv.method = "showAt" -> "show-at-window"
Payload(h, inv) ==
    IF inv.method \in Getters THEN IdentityOf(h)
    ELSE CASE inv.method = "close" -> Assign([force |-> inv.force], IdentityOf(h))
           [] inv.method = "focus" -> IdentityOf(h)
           [] inv.method = "getGroup" -> Assign([crossApp |-> TRUE], IdentityOf(h))
           [] inv.method = "joinGroup" ->
                Assign([groupingUuid |-> inv.target.uuid,
                        groupingWindowName |-> Get(inv.target, "name")], IdentityOf(h))
           [] inv.method = "moveBy" ->
                Assign([deltaLeft |-> inv.deltaLeft, deltaTop |-> inv.deltaTop,
                        options |-> Arg(inv, "options", DefaultMovement)], IdentityOf(h))
           [] inv.method = "moveTo" ->
                Assign([left |-> inv.left, top |-> inv.top,
                        options |-> Arg(inv, "options", DefaultMovement)], IdentityOf(h))
           [] inv.method = "resizeBy" ->
                Assign([deltaWidth |-> MathFloor(inv.deltaWidth),
                        deltaHeight |-> MathFloor(inv.deltaHeight),
                        anchor |-> inv.anchor,
                        options |-> Arg(inv, "options", DefaultMovement)], IdentityOf(h))
           [] inv.method = "resizeTo" ->
                Assign([width |-> MathFloor(inv.width),
                        height |-> MathFloor(inv.height),
                        anchor |-> inv.anchor,
                        options |-> Arg(inv, "options", DefaultMovement)], IdentityOf(h))
           [] inv.method = "setBounds" ->
                Assign([options |-> Arg(inv, "options", DefaultMovement)] @@ inv.bounds,
                       IdentityOf(h))
           [] inv.method = "showAt" ->
                Assign([force |-> Arg(inv, "force", FALSE),
                        left |-> MathFloor(inv.left),
                        top |-> MathFloor(inv.top),
                        options |-> Arg(inv, "options", DefaultMovement)], IdentityOf(h))

\* Variant: every entry becomes a _Window
windowListFromNameListAllLocal(identityList) ==
    [i \in 1..Len(identityList) |->
        [kind |-> "_Window",
         identity |-> [uuid |-> identityList[i].uuid, name |-> identityList[i].name]]]

\* Variant: an ExternalWindow is built from {uuid, name}
windowListFromNameListNamed(identityList) ==
    [i \in 1..Len(identityList) |->
        LET entry == identityList[i]
        IN [kind |-> IF "isExternalWindow" \in DOMAIN entry /\ entry.isExternalWindow
                     THEN "ExternalWindow" ELSE "_Window",
            identity |-> [uuid |-> entry.uuid, name |-> entry.name]]]

\* windowListFromNameList: one handle per entry of the runtime's list, an
\* ExternalWindow built from {uuid} when the entry's isExternalWindow is
\* truthy, a _Window built from {uuid, name} otherwise
windowListFromNameList(identityList) ==
    [i \in 1..Len(identityList) |->
        LET entry == identityList[i]
        IN IF "isExternalWindow" \in DOMAIN entry /\ entry.isExternalWindow
           THEN [kind |-> "ExternalWindow", identity |-> [uuid |-> entry.uuid]]
           ELSE [kind |-> "_Window",
                 identity |-> [uuid |-> entry.uuid, name |-> entry.name]]]

\* Variant: an empty list is answered with a handle of the hosting window
GroupResultNeverEmpty(data) ==
    IF Len(data) # 0 THEN windowListFromNameList(data)
    ELSE <<[kind |-> "_Window", identity |-> me]>>

\* getGroup's .then handler: winGroup stays [] unless payload.data.length
GroupResult(data) == IF Len(data) # 0 THEN windowListFromNameList(data) ELSE <<>>

\* Variant: a getter hands over the payload instead of its data
UnwrapPayload(inv, reply) ==
    IF inv.method \in Getters THEN reply.payload
    ELSE IF inv.method = "getGroup" THEN GroupResult(reply.payload.data)
    ELSE Void

\* What the method's .then handler makes of the reply {payload: {data}}
Unwrap(inv, reply) ==
    IF inv.method \in Getters THEN reply.payload.data
    ELSE IF inv.method = "getGroup" THEN GroupResult(reply.payload.data)
    ELSE Void

\* The promise the method's .then handler gives for an ack, run on a handle
\* whose prototype is p.  getGroup's handler calls
\* this.windowListFromNameList for a non-empty list: on a handle whose
\* prototype was detached that lookup gives undefined and the call throws.
ThenResult(p, inv, reply) ==
    IF /\ inv.method = "getGroup"
       /\ Len(reply.payload.data) # 0
       /\ ~HasMethod(p, "windowListFromNameList")
    THEN Rejected(TypeError)
    ELSE Fulfilled(Unwrap(inv, reply))

\* Variant: any reply to close detaches the prototype
ProtoAfterReplyAlways(p, inv, reply) ==
    IF inv.method = "close" THEN ProtoAfterClose(p) ELSE p

\* The prototype of the handle after the reply's handlers ran: only close's
\* .then handler touches it, and a rejection skips that handler
ProtoAfterReply(p, inv, reply) ==
    IF reply.ok /\ inv.method = "close" THEN ProtoAfterClose(p) ELSE p

\* Variant: the rejection is wrapped into a new error
OnRejectedWrapped(inv, error) == [kind |-> "error", reason |-> "E_WRAPPED"]

\* A method attaches only .then(onFulfilled): the rejection of sendAction
\* passes through to the method's promise as it is
OnRejected(inv, error) == error

\* No reply received yet
NoReply == [ok |-> FALSE, none |-> TRUE]

\* Replies of the runtime to a sendAction
ReplyData == {[bounds |-> "b1"], [bounds |-> "b2"]}
Acks == { [ok |-> TRUE, payload |-> [data |-> d]] : d \in ReplyData }
Nacks == { [ok |-> FALSE, error |-> [kind |-> "error", reason |-> "E_RUNTIME"]] }

\* The identities handed to wrap and wrapSync: two of the expected shape
\* {uuid, name}, two malformed ones
IdentityInputs ==
    { [uuid |-> "app", name |-> "w1"], [uuid |-> "app", name |-> "w2"],
      [name |-> "w1"], [id |-> "app"] }

\* Variant: every identity passes
validateIdentityAccepting(identity) == Undefined

\* validateIdentity checks the shape of an identity and returns an error
\* message, or undefined for an identity of the shape {uuid, name}
validateIdentity(identity) ==
    IF "uuid" \in DOMAIN identity /\ "name" \in DOMAIN identity
    THEN Undefined
    ELSE "Not a valid identity object"

\* new Error(errorMsg) and new _Window(this.wire, identity)
ErrorOf(errorMsg) == [kind |-> "Error", message |-> errorMsg]
NewWindow(identity) == [kind |-> "_Window", identity |-> identity]

\* wrap is async: the throw becomes a rejected promise, the return a
\* fulfilled one
wrap(identity) ==
    LET errorMsg == validateIdentity(identity)
    IN IF errorMsg # Undefined
       THEN Rejected(ErrorOf(errorMsg))
       ELSE Fulfilled(NewWindow(identity))

\* wrapSync throws or returns
wrapSync(identity) ==
    LET errorMsg == validateIdentity(identity)
    IN IF errorMsg # Undefined
       THEN [state |-> "thrown", value |-> ErrorOf(errorMsg)]
       ELSE [state |-> "returned", value |-> NewWindow(identity)]

getCurrent == wrap(me)
getCurrentSync == wrapSync(me)

\* The calls of the factories
FactoryCalls ==
    { [factory |-> f, identity |-> id] : f \in {"wrap", "wrapSync"}, id \in IdentityInputs }
    \cup { [factory |-> "getCurrent"], [factory |-> "getCurrentSync"] }
FactoryResult(call) ==
    CASE call.factory = "wrap" -> wrap(call.identity)
      [] call.factory = "wrapSync" -> wrapSync(call.identity)
      [] call.factory = "getCurrent" -> getCurrent
      [] call.factory = "getCurrentSync" -> getCurrentSync

\* The errors sendAction's promise rejects with
RuntimeErrors ==
    { [kind |-> "error", reason |-> "E_RUNTIME"],
      [kind |-> "error", reason |-> "E_NO_WINDOW"] }
SimpleReplies ==
    {[ok |-> TRUE, payload |-> [data |-> [bounds |-> "b1"]]]}
    \cup { [ok |-> FALSE, error |-> e] : e \in RuntimeErrors }

\* The lists the runtime answers get-window-group with: entries
\* {uuid, name, isExternalWindow}, the flag absent or false for a window of
\* an application and true for a native window; an ungrouped window gets []
EntryW1 == [uuid |-> "app", name |-> "w1", isExternalWindow |-> FALSE]
EntryW2 == [uuid |-> "app", name |-> "w2"]
EntryExternal == [uuid |-> "0x1A", name |-> "Notepad", isExternalWindow |-> TRUE]
GroupLists ==
    { <<>>, <<EntryW1>>, <<EntryW1, EntryW2>>, <<EntryW2, EntryExternal>>,
      <<EntryExternal, EntryW1>>, <<EntryExternal>> }
GroupAcks == { [ok |-> TRUE, payload |-> [data |-> list]] : list \in GroupLists }
IsExternal(entry) == "isExternalWindow" \in DOMAIN entry /\ entry.isExternalWindow

\* ------------------------------------------------------------------ actions
Init ==
    /\ ncalls = 0
    /\ win = [c \in Calls |-> NoCall]
    /\ given = [c \in Calls |-> NoCall]
    /\ rpcOptions = [c \in Calls |-> NoCall]
    /\ listeners = [n \in ListenerKeys |-> {}]
    /\ pageResponse = [c \in Calls |-> NoCall]
    /\ windowCreation = [c \in Calls |-> NoCall]
    /\ joined = [c \in Calls |-> NoCall]
    /\ chained = [c \in Calls |-> NoCall]
    /\ outer = [c \in Calls |-> NoCall]
    /\ observed = [c \in Calls |-> NoCall]
    /\ hookAttempts = [c \in Calls |-> 0]
    /\ hookCalls = [c \in Calls |-> 0]
    /\ childContext = [c \in Calls |-> "none"]
    /\ atHook = [c \in Calls |-> NoCall]
    /\ fired = [c \in Calls |-> 0]
    /\ seen = [c \in Calls |-> <<>>]
    /\ arrivals = [c \in Calls |-> <<>>]
    /\ delivered = 0
    /\ jobs = <<>>
    /\ proto = [h \in Handles |-> WindowPrototype]
    /\ wire = <<>>
    /\ ops = <<>>
    /\ wraps = <<>>

\* _WindowModule.create(options) followed by the synchronous part of
\* _Window.createWindow(options)
Create(options) ==
    /\ jobs = <<>>
    /\ ncalls < MaxCalls
    /\ LET c == ncalls + 1
           identity == CreateIdentity(options)
       IN /\ ncalls' = c
          /\ win' = [win EXCEPT ![c] = identity]
          /\ listeners' = [listeners EXCEPT ![identity.name] = on(@, c)]
          /\ pageResponse' = [pageResponse EXCEPT ![c] = NewPageResponse]
          /\ given' = [given EXCEPT ![c] = options]
          /\ rpcOptions' = [rpcOptions EXCEPT ![c] = SetDefaults(options)]
          /\ windowCreation' = [windowCreation EXCEPT ![c] = Pending]
          /\ joined' = [joined EXCEPT ![c] = Pending]
          /\ chained' = [chained EXCEPT ![c] = Pending]
          /\ outer' = [outer EXCEPT ![c] = Pending]
          /\ observed' = [observed EXCEPT ![c] = Pending]
          /\ jobs' = IF IsPending(NewPageResponse) THEN jobs
                     ELSE Append(jobs, Job("allPage", c))
    /\ UNCHANGED <<hookAttempts, hookCalls, childContext, atHook, fired, seen, arrivals,
                   delivered, opsVars>>

\* The transport delivers a 'fire-constructor-callback' notification
\* addressed to the window named n: every listener registered for it runs.
DeliverStep(n, response) ==
    /\ jobs = <<>>
    /\ delivered < MaxDeliver
    /\ \E c \in Calls : Started(c) /\ rpcOptions[c].name = n
    /\ LET registered == listeners[n]
           resolving == {c \in registered : IsPending(pageResponse[c])}
       IN /\ fired' = [c \in Calls |-> IF c \in registered THEN fired[c] + 1 ELSE fired[c]]
          /\ listeners' = [listeners EXCEPT
                             ![n] = {c \in registered : c \in ListenersAfterFire(registered, c)}]
          /\ pageResponse' = [c \in Calls |->
                                IF c \in registered
                                THEN Settle(pageResponse[c], Fulfilled(fireConstructor(response)))
                                ELSE pageResponse[c]]
          /\ jobs' = MapJobs("allPage", InOrder(resolving))
    /\ seen' = [c \in Calls |->
                  IF Started(c) /\ rpcOptions[c].name = n
                  THEN Append(seen[c], response) ELSE seen[c]]
    /\ delivered' = delivered + 1
    /\ UNCHANGED <<ncalls, win, given, rpcOptions, windowCreation, joined, chained, outer,
                   observed, hookAttempts, hookCalls, childContext, atHook, opsVars>>

Deliver(n, response) == DeliverStep(n, response) /\ UNCHANGED arrivals

\* The same step with the arrival log kept: the calls whose pageResponse
\* this notification resolves note it
DeliverLogged(n, response) ==
    /\ DeliverStep(n, response)
    /\ arrivals' = [c \in Calls |->
                      IF c \in listeners[n] /\ IsPending(pageResponse[c])
                      THEN Append(arrivals[c], "notice") ELSE arrivals[c]]

\* The reply to environment.createChildWindow(options) arrives
RpcReplyStep(c, result) ==
    /\ jobs = <<>>
    /\ Started(c)
    /\ IsPending(windowCreation[c])
    /\ windowCreation' = [windowCreation EXCEPT ![c] = result]
    /\ jobs' = <<Job("allRpc", c)>>
    /\ UNCHANGED <<ncalls, win, given, rpcOptions, listeners, pageResponse, joined, chained,
                   outer, observed, hookAttempts, hookCalls, childContext, atHook, fired,
                   seen, delivered, opsVars>>

RpcReply(c, result) == RpcReplyStep(c, result) /\ UNCHANGED arrivals

\* The same step with the arrival log kept
RpcReplyLogged(c, result) ==
    /\ RpcReplyStep(c, result)
    /\ arrivals' = [arrivals EXCEPT ![c] = Append(@, "rpc")]

\* Promise.all's reaction to the fulfilment of pageResponse
AllReactPage(c) ==
    /\ HeadIs("allPage", c)
    /\ LET ready == IsPending(joined[c]) /\ JoinReady(pageResponse[c], windowCreation[c])
       IN /\ joined' = [joined EXCEPT ![c] =
                          IF ready
                          THEN Fulfilled(<<pageResponse[c].value, Get(windowCreation[c], "value")>>)
                          ELSE @]
          /\ jobs' = Tail(jobs) \o (IF ready THEN <<Job("then", c)>> ELSE <<>>)
    /\ UNCHANGED <<ncalls, win, given, rpcOptions, listeners, pageResponse, windowCreation,
                   chained, outer, observed, hookAttempts, hookCalls, childContext, atHook, fired,
                   seen, arrivals, delivered, opsVars>>

\* Promise.all's reaction to the settlement of windowCreation: a rejected
\* input rejects the join at once, whatever the other input's state
AllReactRpc(c) ==
    /\ HeadIs("allRpc", c)
    /\ LET failing == IsPending(joined[c]) /\ JoinFails(pageResponse[c], windowCreation[c])
           ready == IsPending(joined[c]) /\ IsFulfilled(windowCreation[c])
                    /\ JoinReady(pageResponse[c], windowCreation[c])
       IN /\ joined' = [joined EXCEPT ![c] =
                          IF failing THEN Rejected(windowCreation[c].value)
                          ELSE IF ready
                          THEN Fulfilled(<<pageResponse[c].value, windowCreation[c].value>>)
                          ELSE @]
          /\ jobs' = Tail(jobs) \o (IF failing \/ ready THEN <<Job("then", c)>> ELSE <<>>)
    /\ UNCHANGED <<ncalls, win, given, rpcOptions, listeners, pageResponse, windowCreation,
                   chained, outer, observed, hookAttempts, hookCalls, childContext, atHook, fired,
                   seen, arrivals, delivered, opsVars>>

\* The reaction of .then((resolvedArr) => {...}) to the join.  On fulfilment
\* the handler runs: it settles the returned promise, then tries the child's
\* openerSuccessCBCalled hook inside try/catch.  On rejection the handler is
\* skipped and the rejection passes through to .catch(reject).
ThenReaction(c, context) ==
    /\ HeadIs("then", c)
    /\ IF IsFulfilled(joined[c])
       THEN LET done == ThenHandler(outer[c], Handle(c), joined[c].value[1], context)
            IN /\ outer' = [outer EXCEPT ![c] = done.outer]
               /\ hookAttempts' = [hookAttempts EXCEPT ![c] = @ + done.attempts]
               /\ hookCalls' = [hookCalls EXCEPT ![c] = @ + done.calls]
               /\ childContext' = [childContext EXCEPT ![c] = context]
               /\ atHook' = [atHook EXCEPT ![c] = done.atHook]
               /\ chained' = [chained EXCEPT ![c] =
                                 IF done.thrown THEN Rejected(TypeError)
                                 ELSE Fulfilled(Void)]
               /\ jobs' = Tail(jobs)
                          \o (IF done.outer # outer[c] THEN <<Job("caller", c)>> ELSE <<>>)
                          \o <<Job("catch", c)>>
       ELSE /\ chained' = [chained EXCEPT ![c] = Rejected(joined[c].value)]
            /\ jobs' = Tail(jobs) \o <<Job("catch", c)>>
            /\ UNCHANGED <<outer, hookAttempts, hookCalls, childContext, atHook>>
    /\ UNCHANGED <<ncalls, win, given, rpcOptions, listeners, pageResponse, windowCreation,
                   joined, observed, fired, seen, arrivals, delivered, opsVars>>

\* The reaction of .catch(reject): a rejection that reached the end of the
\* chain rejects the returned promise
CatchReaction(c) ==
    /\ HeadIs("catch", c)
    /\ LET settled == CatchOutcome(outer[c], chained[c])
       IN /\ outer' = [outer EXCEPT ![c] = settled]
          /\ jobs' = Tail(jobs)
                     \o (IF settled # outer[c] THEN <<Job("caller", c)>> ELSE <<>>)
    /\ UNCHANGED <<ncalls, win, given, rpcOptions, listeners, pageResponse, windowCreation,
                   joined, chained, observed, hookAttempts, hookCalls, childContext, atHook,
                   fired, seen, arrivals, delivered, opsVars>>

\* The caller's continuation on the promise create returned
CallerContinuation(c) ==
    /\ HeadIs("caller", c)
    /\ observed' = [observed EXCEPT ![c] = outer[c]]
    /\ jobs' = Tail(jobs)
    /\ UNCHANGED <<ncalls, win, given, rpcOptions, listeners, pageResponse, windowCreation,
                   joined, chained, outer, hookAttempts, hookCalls, childContext, atHook, fired,
                   seen, arrivals, delivered, opsVars>>

\* The caller invokes a method on handle h.  A handle whose prototype was
\* detached has no such method: the call throws before any code of the class
\* runs.  Otherwise the method issues its one sendAction and returns the
\* pending promise.
Invoke(h, inv) ==
    /\ Len(ops) < MaxOps
    /\ LET closedBefore == \E i \in 1..Len(ops) :
                              /\ ops[i].handle = h
                              /\ ops[i].inv.method = "close"
                              /\ ops[i].state = "fulfilled"
       IN IF HasMethod(proto[h], inv.method)
          THEN /\ wire' = Append(wire, [topic |-> Topic(inv), payload |-> Payload(h, inv),
                                        op |-> Len(ops) + 1])
               /\ ops' = Append(ops, [handle |-> h, inv |-> inv, state |-> "pending",
                                      value |-> Void, request |-> Len(wire) + 1,
                                      reply |-> NoReply, afterClose |-> closedBefore])
          ELSE /\ wire' = wire
               /\ ops' = Append(ops, [handle |-> h, inv |-> inv, state |-> "thrown",
                                      value |-> TypeError, request |-> 0,
                                      reply |-> NoReply, afterClose |-> closedBefore])
    /\ UNCHANGED <<proto, wraps, createVars>>

\* The runtime's reply to the sendAction of invocation i arrives and the
\* method's .then handler runs: close detaches the prototype of its handle
\* on an ack; a nack rejects the method's promise with the error as it is.
Reply(i, reply) ==
    /\ i \in 1..Len(ops)
    /\ ops[i].state = "pending"
    /\ LET settled == IF reply.ok
                      THEN ThenResult(proto[ops[i].handle], ops[i].inv, reply)
                      ELSE Rejected(OnRejected(ops[i].inv, reply.error))
       IN ops' = [ops EXCEPT ![i].state = settled.state,
                             ![i].value = settled.value,
                             ![i].reply = reply]
    /\ proto' = [proto EXCEPT ![ops[i].handle] = ProtoAfterReply(@, ops[i].inv, reply)]
    /\ UNCHANGED <<wire, wraps, createVars>>

\* A factory of _WindowModule is called: it validates and constructs, the
\* transport is handed to the constructor and not used
Wrap(call) ==
    /\ Len(wraps) < MaxWraps
    /\ wraps' = Append(wraps, [call |-> call, result |-> FactoryResult(call)])
    /\ UNCHANGED <<proto, wire, ops, createVars>>

RpcResults == {Fulfilled(Void)} \cup {Rejected(e) : e \in RpcErrors}

Next ==
    \/ \E options \in OptionInputs : Create(options)
    \/ \E n \in Names, response \in Responses : Deliver(n, response)
    \/ \E c \in Calls, result \in RpcResults : RpcReply(c, result)
    \/ \E c \in Calls : AllReactPage(c)
    \/ \E c \in Calls : AllReactRpc(c)
    \/ \E c \in Calls, context \in ChildContexts : ThenReaction(c, context)
    \/ \E c \in Calls : CatchReaction(c)
    \/ \E c \in Calls : CallerContinuation(c)

Spec == Init /\ [][Next]_vars

\* The operations on established handles
OpsReplies == {[ok |-> TRUE, payload |-> [data |-> [bounds |-> "b1"]]]} \cup Nacks

OpsNext ==
    \/ \E h \in Handles, inv \in Invocations : Invoke(h, inv)
    \/ \E i \in 1..MaxOps, reply \in OpsReplies : Reply(i, reply)

OpsSpec == Init /\ [][OpsNext]_vars

\* The operations without a result on established handles
SimpleInvocations ==
    { [method |-> "focus"], [method |-> "moveBy", deltaLeft |-> 4, deltaTop |-> -2] }

SimpleNext ==
    \/ \E h \in Handles, inv \in SimpleInvocations : Invoke(h, inv)
    \/ \E i \in 1..MaxOps, reply \in SimpleReplies : Reply(i, reply)

SimpleSpec == Init /\ [][SimpleNext]_vars

\* create over the option bags a caller can pass: each of waitForPageLoad,
\* autoShow and url set or left out
Optional(field, values) == { <<>> } \cup { field :> v : v \in values }
OptionSpace ==
    { [name |-> n] @@ w @@ a @@ u :
        n \in Names,
        w \in Optional("waitForPageLoad", BOOLEAN),
        a \in Optional("autoShow", BOOLEAN),
        u \in Optional("url", {"https://example.com/"}) }

OptionsNext == \E options \in OptionSpace : Create(options)

OptionsSpec == Init /\ [][OptionsNext]_vars

\* The operations that carry a position or a size, called with whole and with
\* fractional numbers (in half units: 21 is 10.5, -3 is -1.5)
Coordinates == { <<21, -3>>, <<20, 40>> }
GeometryInvocations ==
    UNION { { [method |-> "moveTo", left |-> xy[1], top |-> xy[2]],
              [method |-> "resizeTo", width |-> xy[1], height |-> xy[2],
               anchor |-> "top-left"],
              [method |-> "resizeBy", deltaWidth |-> xy[1], deltaHeight |-> xy[2],
               anchor |-> "top-left"],
              [method |-> "showAt", left |-> xy[1], top |-> xy[2]],
              [method |-> "setBounds",
               bounds |-> [left |-> xy[1], top |-> xy[2],
                           width |-> xy[1], height |-> xy[2]]] } :
            xy \in Coordinates }

GeometryNext == \E h \in Handles, inv \in GeometryInvocations : Invoke(h, inv)

FloorSpec == Init /\ [][GeometryNext]_vars

\* Operations whose own fields could collide with the identity: bounds that
\* carry a uuid and a name of their own, a join with another window
TargetInvocations ==
    { [method |-> "setBounds",
       bounds |-> [left |-> 20, top |-> 40, width |-> 200, height |-> 100,
                   uuid |-> "other-app", name |-> "other-window"]],
      [method |-> "setBounds",
       bounds |-> [left |-> 20, top |-> 40, width |-> 200, height |-> 100]],
      [method |-> "joinGroup", target |-> [uuid |-> "app", name |-> "w2"]],
      [method |-> "joinGroup", target |-> [uuid |-> "0x1A"]],
      [method |-> "getGroup"],
      [method |-> "close", force |-> TRUE] }

TargetNext == \E h \in Handles, inv \in TargetInvocations : Invoke(h, inv)

TargetSpec == Init /\ [][TargetNext]_vars

\* close racing with a getGroup on the same handles: each request gets the
\* reply of its kind
RaceInvocations == { [method |-> "close", force |-> FALSE], [method |-> "getGroup"] }
RaceGroupAcks ==
    { [ok |-> TRUE, payload |-> [data |-> list]] :
        list \in { <<>>, <<EntryW1, EntryExternal>> } }
RepliesTo(inv) == IF inv.method = "getGroup" THEN RaceGroupAcks \cup Nacks ELSE OpsReplies

RaceNext ==
    \/ \E h \in Handles, inv \in RaceInvocations : Invoke(h, inv)
    \/ \E i \in 1..MaxOps :
          /\ i <= Len(ops)
          /\ \E reply \in RepliesTo(ops[i].inv) : Reply(i, reply)

RaceSpec == Init /\ [][RaceNext]_vars

\* The factories, next to requests of established handles
WrapNext ==
    \/ \E call \in FactoryCalls : Wrap(call)
    \/ \E h \in Handles : Invoke(h, [method |-> "focus"])

WrapSpec == Init /\ [][WrapNext]_vars

\* The getters on established handles, the runtime answering with data
GetterCalls ==
    { <<"h1", [method |-> m]>> : m \in Getters }
    \cup { <<"h2", [method |-> m]>> : m \in {"getBounds", "getState"} }

GetterNext ==
    \/ \E call \in GetterCalls : Invoke(call[1], call[2])
    \/ \E i \in 1..MaxOps, reply \in Acks : Reply(i, reply)

GetterSpec == Init /\ [][GetterNext]_vars

\* getGroup on established handles, the runtime answering with a group list
\* or an error
GroupNext ==
    \/ \E h \in Handles : Invoke(h, [method |-> "getGroup"])
    \/ \E i \in 1..MaxOps, reply \in GroupAcks \cup Nacks : Reply(i, reply)

GroupSpec == Init /\ [][GroupNext]_vars

\* The engine always drains the microtask queue, and the transport answers
\* every createChildWindow request.  Nothing obliges the child to report: the
\* delivery of the constructor-callback notification has no fairness.
Microtask ==
    \E c \in Calls :
        \/ AllReactPage(c)
        \/ AllReactRpc(c)
        \/ \E context \in ChildContexts : ThenReaction(c, context)
        \/ CatchReaction(c)
        \/ CallerContinuation(c)

FairSpec ==
    /\ Init /\ [][Next]_vars
    /\ WF_vars(Microtask)
    /\ \A c \in Calls : WF_vars(\E result \in RpcResults : RpcReply(c, result))

\* The handshake with a transport that acknowledges every createChildWindow
\* and a child whose context is reachable; the engine drains the microtask
\* queue and the transport answers, the notification has no fairness
AckNext ==
    \/ \E options \in OptionInputs : Create(options)
    \/ \E n \in Names, response \in Responses : Deliver(n, response)
    \/ \E c \in Calls : RpcReply(c, Fulfilled(Void))
    \/ \E c \in Calls : AllReactPage(c)
    \/ \E c \in Calls : AllReactRpc(c)
    \/ \E c \in Calls : ThenReaction(c, "hook")
    \/ \E c \in Calls : CatchReaction(c)
    \/ \E c \in Calls : CallerContinuation(c)

\* The handshake with the arrival order of the two completion sources
\* logged, for a child whose context is reachable
OrderNext ==
    \/ \E options \in OptionInputs : Create(options)
    \/ \E n \in Names, response \in Responses : DeliverLogged(n, response)
    \/ \E c \in Calls, result \in RpcResults : RpcReplyLogged(c, result)
    \/ \E c \in Calls : AllReactPage(c)
    \/ \E c \in Calls : AllReactRpc(c)
    \/ \E c \in Calls : ThenReaction(c, "hook")
    \/ \E c \in Calls : CatchReaction(c)
    \/ \E c \in Calls : CallerContinuation(c)

OrderSpec == Init /\ [][OrderNext]_vars

FairAckSpec ==
    /\ Init /\ [][AckNext]_vars
    /\ WF_vars(Microtask)
    /\ \A c \in Calls : WF_vars(RpcReply(c, Fulfilled(Void)))

TypeOK ==
    /\ ncalls \in 0..MaxCalls
    /\ delivered \in 0..MaxDeliver
    /\ Len(ops) <= MaxOps
    /\ Len(wraps) <= MaxWraps
    /\ \A c \in Calls : fired[c] \in 0..MaxDeliver

\* ===================================================================== claims

\* The first notification addressed to call c's window since the call began
FirstNotice(c) == seen[c][1]
Quiescent == jobs = <<>>

\* C1: the promise of a create call is resolved only when createChildWindow
\* has been fulfilled and a constructor-callback notification has been
\* delivered to (and run) its listener; so with the RPC fulfilled and no
\* notification yet, the call is not resolved.
C1_JointCompletion ==
    \A c \in Calls :
        IsFulfilled(outer[c]) =>
            /\ IsFulfilled(windowCreation[c])
            /\ seen[c] # <<>>
            /\ fired[c] >= 1

\* One call resolved after both events, another still pending with its RPC
\* fulfilled and no notification
C1_Witness ==
    \E c, d \in Calls :
        /\ IsFulfilled(outer[c])
        /\ IsFulfilled(windowCreation[d]) /\ seen[d] = <<>> /\ IsPending(outer[d])
        /\ Quiescent

\* C2: once createChildWindow has rejected, create is never resolved, and when
\* the reaction jobs have run it is rejected with exactly the RPC's rejection
\* value, whatever notifications arrived before or after.
C2_RpcRejection ==
    \A c \in Calls :
        IsRejected(windowCreation[c]) =>
            /\ ~IsFulfilled(outer[c])
            /\ Quiescent => /\ outer[c] = Rejected(windowCreation[c].value)
                            /\ observed[c] = outer[c]

\* The RPC rejected although the notification reported success
C2_Witness ==
    \E c \in Calls :
        /\ IsRejected(windowCreation[c]) /\ IsRejected(outer[c])
        /\ seen[c] # <<>> /\ FirstNotice(c).success
        /\ Quiescent

\* C3: with createChildWindow fulfilled and the notification reporting
\* success = false, create is never resolved and is rejected with a value
\* that carries the notification's message, networkErrorCode and stack.
C3_HandshakeFailure ==
    \A c \in Calls :
        (IsFulfilled(windowCreation[c]) /\ seen[c] # <<>> /\ ~FirstNotice(c).success) =>
            /\ ~IsFulfilled(outer[c])
            /\ Quiescent =>
                 /\ IsRejected(outer[c])
                 /\ LET v == outer[c].value
                        d == FirstNotice(c).data
                    IN /\ v.success = FALSE
                       /\ v.message = Get(d, "message")
                       /\ v.cbPayload.message = Get(d, "message")
                       /\ v.cbPayload.networkErrorCode = Get(d, "networkErrorCode")
                       /\ v.cbPayload.stack = Get(d, "stack")

C3_Witness ==
    \E c \in Calls :
        /\ IsFulfilled(windowCreation[c]) /\ IsRejected(observed[c])
        /\ seen[c] # <<>> /\ FirstNotice(c) = RespFail1

C5_ParentBeforeChild ==
    \A c \in Calls : hookCalls[c] > 0 => IsFulfilled(observed[c])

\* C6: when both completion sources succeeded and the child context is
\* unreachable (getWebWindow throws, or the hook is absent), create is
\* resolved with the handle and the failure of that step reaches neither the
\* promise chain nor the caller.
C6_BestEffortHook ==
    \A c \in Calls :
        (/\ IsFulfilled(joined[c])
         /\ joined[c].value[1].success
         /\ childContext[c] \in {"throws", "absent"}) =>
            /\ outer[c] = Fulfilled(Handle(c))
            /\ ~IsRejected(chained[c])
            /\ hookCalls[c] = 0
            /\ Quiescent => observed[c] = Fulfilled(Handle(c))

C6_Witness ==
    \E c, d \in Calls :
        /\ childContext[c] = "throws" /\ IsFulfilled(observed[c])
        /\ childContext[d] = "absent" /\ IsFulfilled(observed[d])

\* C7: the fireConstructor listener of a create call runs at most once: the
\* first delivery removes its registration and resolves pageResponse from
\* that notification, and a second delivery finds no listener.
C7_ListenerOnce ==
    \A c \in Calls :
        /\ fired[c] <= 1
        /\ fired[c] = 1 =>
             /\ c \notin listeners[win[c].name]
             /\ pageResponse[c] = Fulfilled(fireConstructor(FirstNotice(c)))

\* The notification was delivered twice, with different contents
C7_Witness ==
    \E c \in Calls :
        /\ Len(seen[c]) = 2 /\ seen[c][1] # seen[c][2]
        /\ fired[c] = 1

\* C8: a create call has one terminal outcome: once its promise is settled
\* no step changes it (nor what the caller observed), and it is resolved
\* only with its own handle and only when the handshake outcome was Success.
C8_SingleOutcome ==
    /\ [][\A c \in Calls :
            /\ IsSettled(outer[c]) => outer'[c] = outer[c]
            /\ IsSettled(observed[c]) => observed'[c] = observed[c]]_vars
    /\ [](\A c \in Calls :
            IsFulfilled(outer[c]) =>
                /\ outer[c].value = Handle(c)
                /\ IsFulfilled(pageResponse[c])
                /\ pageResponse[c].value.success)

\* Resolved, and a duplicate notification reporting failure was delivered
C8_Witness ==
    \E c \in Calls :
        /\ IsFulfilled(observed[c])
        /\ Len(seen[c]) = 2 /\ ~seen[c][2].success

\* C9 as stated: every create call eventually settles.
C9_EventuallySettles ==
    \A c \in Calls : IsPending(outer[c]) ~> IsSettled(outer[c])

\* C9 amended: there is no timeout; as long as createChildWindow has not
\* rejected and no notification has been delivered, the call stays pending.
C9_PendingWithoutNotice ==
    \A c \in Calls :
        (Started(c) /\ ~IsRejected(windowCreation[c]) /\ seen[c] = <<>>) =>
            /\ IsPending(outer[c])
            /\ IsPending(observed[c])

C9_Witness ==
    \E c \in Calls :
        /\ IsFulfilled(windowCreation[c]) /\ seen[c] = <<>>
        /\ IsPending(outer[c]) /\ IsPending(observed[c]) /\ Quiescent

\* What call c must end as, given only its own RPC result and the first
\* notification addressed to its own window
Expected(c) ==
    IF IsRejected(windowCreation[c]) THEN Rejected(windowCreation[c].value)
    ELSE IF IsFulfilled(windowCreation[c]) /\ seen[c] # <<>>
    THEN IF FirstNotice(c).success
         THEN Fulfilled([kind |-> "window",
                         identity |-> [uuid |-> me.uuid, name |-> rpcOptions[c].name]])
         ELSE Rejected(fireConstructor(FirstNotice(c)))
    ELSE Pending

\* C10: create calls for distinct window names are independent: a step that
\* delivers a notification to one window leaves the other call's listener,
\* pageResponse and promise untouched, and when the reaction jobs have run
\* each call's outcome is the one its own RPC result and notification fix.
C10_Independent ==
    /\ [][\A c, d \in Calls :
            (/\ Started(c) /\ Started(d)
             /\ rpcOptions[c].name # rpcOptions[d].name
             /\ seen'[d] # seen[d]) =>
                /\ pageResponse'[c] = pageResponse[c]
                /\ outer'[c] = outer[c]
                /\ fired'[c] = fired[c]
                /\ (c \in listeners'[win[c].name]) = (c \in listeners[win[c].name])]_vars
    /\ [](\A c \in Calls : (Started(c) /\ Quiescent) => outer[c] = Expected(c))

\* Two calls for distinct names that ended differently
C10_Witness ==
    \E c, d \in Calls :
        /\ Started(c) /\ Started(d) /\ rpcOptions[c].name # rpcOptions[d].name
        /\ IsFulfilled(observed[c])
        /\ IsRejected(observed[d]) /\ IsFulfilled(windowCreation[d])

\* The getGroup invocations whose reply was an ack
GroupOps ==
    { i \in 1..Len(ops) : ops[i].inv.method = "getGroup" /\ ops[i].state = "fulfilled" }
GroupData(i) == ops[i].reply.payload.data
Members(i) == { ops[i].value[k] : k \in 1..Len(ops[i].value) }

\* C11 as stated: getGroup on an ungrouped handle returns exactly one handle,
\* the caller's, and every result contains a handle with the caller's identity.
C11_SelfMembership ==
    \A i \in GroupOps :
        /\ GroupData(i) = <<>> => Len(ops[i].value) = 1
        /\ \E m \in Members(i) : m.identity = IdentityOf(ops[i].handle)

\* C11 as the code has it: getGroup adds nothing of its own to the runtime's
\* list.  The list of an ungrouped window is empty and so is the result, and
\* the result holds a handle with the caller's identity exactly when the
\* runtime's list names the caller.
C11_CallerOnlyIfListed ==
    \A i \in GroupOps :
        /\ GroupData(i) = <<>> => ops[i].value = <<>>
        /\ (\E m \in Members(i) : m.identity = IdentityOf(ops[i].handle))
           <=> (\E k \in 1..Len(GroupData(i)) :
                    /\ ~IsExternal(GroupData(i)[k])
                    /\ GroupData(i)[k].uuid = IdentityOf(ops[i].handle).uuid
                    /\ GroupData(i)[k].name = IdentityOf(ops[i].handle).name)

\* getGroup returned the empty sequence for an ungrouped window, and returned
\* a group that does not hold its caller
C11_Witness ==
    /\ \E i \in GroupOps : GroupData(i) = <<>> /\ ops[i].value = <<>>
    /\ \E i \in GroupOps :
          /\ Len(ops[i].value) > 0
          /\ \A m \in Members(i) : m.identity # IdentityOf(ops[i].handle)

\* C12: the sequence getGroup produces has the length and the order of the
\* runtime's list, its i-th element an ExternalWindow exactly when entry i has
\* isExternalWindow set and a _Window otherwise; an empty list gives an empty
\* sequence and a fulfilled promise.
C12_SameShape ==
    \A i \in 1..Len(ops) :
        (ops[i].inv.method = "getGroup" /\ ops[i].reply \in GroupAcks) =>
            /\ ops[i].state = "fulfilled"
            /\ Len(ops[i].value) = Len(GroupData(i))
            /\ \A k \in 1..Len(GroupData(i)) :
                  /\ ops[i].value[k].kind = "ExternalWindow" <=> IsExternal(GroupData(i)[k])
                  /\ ops[i].value[k].kind = "_Window" <=> ~IsExternal(GroupData(i)[k])
                  /\ ops[i].value[k].identity.uuid = GroupData(i)[k].uuid

\* getGroup produced a group of two with a native window in second place
C12_Witness ==
    \E i \in GroupOps :
        /\ GroupData(i) = <<EntryW2, EntryExternal>>
        /\ ops[i].value[1].kind = "_Window"
        /\ ops[i].value[2].kind = "ExternalWindow"

\* C13 as stated: every member getGroup produces carries the uuid and the
\* name of its list entry.
C13_FullIdentity ==
    \A i \in GroupOps : \A k \in 1..Len(ops[i].value) :
        /\ Get(ops[i].value[k].identity, "uuid") = GroupData(i)[k].uuid
        /\ Get(ops[i].value[k].identity, "name") = GroupData(i)[k].name

\* C13 as the code has it: a _Window member carries the uuid and the name of
\* its entry; an ExternalWindow member carries the entry's uuid alone, the
\* name the runtime supplied is dropped.
C13_NameOnlyOnLocal ==
    \A i \in GroupOps : \A k \in 1..Len(ops[i].value) :
        IF IsExternal(GroupData(i)[k])
        THEN ops[i].value[k].identity = [uuid |-> GroupData(i)[k].uuid]
        ELSE ops[i].value[k].identity =
                [uuid |-> GroupData(i)[k].uuid, name |-> GroupData(i)[k].name]

\* getGroup produced a member for a native window the runtime had named
C13_Witness ==
    \E i \in GroupOps : \E k \in 1..Len(ops[i].value) :
        /\ GroupData(i)[k] = EntryExternal
        /\ DOMAIN ops[i].value[k].identity = {"uuid"}

\* The requests on the wire that invocation i issued
RequestsOf(i) == { k \in 1..Len(wire) : wire[k].op = i }

\* C14: every invocation of a getter issues exactly one sendAction, with the
\* getter's topic and the handle's identity as payload, and fulfils with the
\* data field of the reply as it came; n invocations issue n requests.
C14_RoundTrip ==
    /\ \A i \in 1..Len(ops) :
          ops[i].inv.method \in Getters =>
              /\ Cardinality(RequestsOf(i)) = 1
              /\ wire[ops[i].request] =
                    [topic |-> GetterTopics[ops[i].inv.method],
                     payload |-> IdentityOf(ops[i].handle),
                     op |-> i]
              /\ ops[i].reply \in Acks =>
                    /\ ops[i].state = "fulfilled"
                    /\ ops[i].value = ops[i].reply.payload.data
    /\ Cardinality({ i \in 1..Len(ops) : ops[i].inv.method \in Getters })
          = Cardinality({ k \in 1..Len(wire) : wire[k].topic \in
                            { GetterTopics[m] : m \in Getters } })

\* The same getter was invoked twice on one handle, issued two requests and
\* returned the two different answers the runtime gave
C14_Witness ==
    \E i, j \in 1..Len(ops) :
        /\ i < j
        /\ ops[i].handle = ops[j].handle
        /\ ops[i].inv = ops[j].inv
        /\ ops[i].inv.method \in Getters
        /\ ops[i].state = "fulfilled" /\ ops[j].state = "fulfilled"
        /\ ops[i].value # ops[j].value
        /\ ops[i].request # ops[j].request

\* C15: when sendAction rejects, the promise of the operation rejects with
\* that very error, and every invocation has issued exactly one sendAction,
\* whatever its outcome: no second request follows a failure.
C15_RejectionPassedOn ==
    /\ \A i \in 1..Len(ops) :
          /\ Cardinality(RequestsOf(i)) = 1
          /\ (ops[i].reply # NoReply /\ ~ops[i].reply.ok) =>
                /\ ops[i].state = "rejected"
                /\ ops[i].value = ops[i].reply.error
    /\ Len(wire) = Len(ops)

\* Two operations failed with different errors and each caller got its own,
\* with one request on the wire per invocation
C15_Witness ==
    \E i, j \in 1..Len(ops) :
        /\ ops[i].state = "rejected" /\ ops[j].state = "rejected"
        /\ ops[i].inv.method = "focus" /\ ops[j].inv.method = "moveBy"
        /\ ops[i].value # ops[j].value
        /\ ops[i].value = ops[i].reply.error
        /\ Len(wire) = Len(ops)

\* The identity a factory call is about, and whether it has the shape
\* {uuid, name}
IdentityGiven(call) == IF "identity" \in DOMAIN call THEN call.identity ELSE me
WellFormed(identity) == DOMAIN identity = {"uuid", "name"}

\* C16: a call of wrap, wrapSync, getCurrent or getCurrentSync leaves the
\* wire as it was; with a malformed identity it fails with an Error (wrap by
\* rejecting, wrapSync by throwing), with a well-formed one it gives a handle
\* whose identity is the one passed (the hosting window's for getCurrent and
\* getCurrentSync).
C16_FactoriesStayLocal ==
    /\ [](\A k \in 1..Len(wraps) :
            LET call == wraps[k].call
                result == wraps[k].result
                promised == call.factory \in {"wrap", "getCurrent"}
            IN IF WellFormed(IdentityGiven(call))
               THEN /\ result.state = IF promised THEN "fulfilled" ELSE "returned"
                    /\ result.value = NewWindow(IdentityGiven(call))
               ELSE /\ result.state = IF promised THEN "rejected" ELSE "thrown"
                    /\ result.value.kind = "Error")
    /\ [][wraps' # wraps => wire' = wire]_vars

\* With a request of another handle on the wire, wrap rejected a malformed
\* identity and getCurrentSync returned a handle of the hosting window
C16_Witness ==
    /\ Len(wire) > 0
    /\ \E k \in 1..Len(wraps) :
          /\ wraps[k].call.factory = "wrap"
          /\ ~WellFormed(wraps[k].call.identity)
          /\ wraps[k].result.state = "rejected"
    /\ \E k \in 1..Len(wraps) :
          /\ wraps[k].call.factory = "getCurrentSync"
          /\ wraps[k].result = [state |-> "returned", value |-> NewWindow(me)]

\* C17: the options handed to createChildWindow have waitForPageLoad and
\* autoShow set, to false and to true where the caller left them out and to
\* the caller's value otherwise, and every other field is as the caller
\* passed it.
C17_TwoDefaults ==
    \A c \in 1..ncalls :
        /\ rpcOptions[c].waitForPageLoad =
              IF "waitForPageLoad" \in DOMAIN given[c]
              THEN given[c].waitForPageLoad ELSE FALSE
        /\ rpcOptions[c].autoShow =
              IF "autoShow" \in DOMAIN given[c] THEN given[c].autoShow ELSE TRUE
        /\ \A f \in DOMAIN given[c] \ {"waitForPageLoad", "autoShow"} :
              f \in DOMAIN rpcOptions[c] /\ rpcOptions[c][f] = given[c][f]

\* create was called with autoShow false and no waitForPageLoad, and with
\* waitForPageLoad true and no autoShow
C17_Witness ==
    /\ \E c \in 1..ncalls :
          /\ "autoShow" \in DOMAIN given[c] /\ ~given[c].autoShow
          /\ "waitForPageLoad" \notin DOMAIN given[c]
          /\ ~rpcOptions[c].autoShow /\ ~rpcOptions[c].waitForPageLoad
    /\ \E c \in 1..ncalls :
          /\ "waitForPageLoad" \in DOMAIN given[c] /\ given[c].waitForPageLoad
          /\ "autoShow" \notin DOMAIN given[c]
          /\ rpcOptions[c].autoShow /\ rpcOptions[c].waitForPageLoad

\* C18 as stated: the options handed to createChildWindow always have a url,
\* "about:blank" where the caller gave none.
C18_UrlNeverUnset ==
    \A c \in 1..ncalls :
        /\ "url" \in DOMAIN rpcOptions[c]
        /\ "url" \notin DOMAIN given[c] => rpcOptions[c].url = "about:blank"

\* C18 as the code has it: waitForPageLoad and autoShow are the only fields
\* defaulted before createChildWindow is called; a url the caller left out is
\* left out of the options createChildWindow gets.
C18_UrlLeftToRuntime ==
    \A c \in 1..ncalls :
        /\ DOMAIN rpcOptions[c] \ DOMAIN given[c] \subseteq {"waitForPageLoad", "autoShow"}
        /\ "url" \in DOMAIN rpcOptions[c] <=> "url" \in DOMAIN given[c]

\* create was called without a url and createChildWindow got options
\* without one
C18_Witness ==
    \E c \in 1..ncalls :
        /\ "url" \notin DOMAIN given[c]
        /\ "url" \notin DOMAIN rpcOptions[c]
        /\ "autoShow" \in DOMAIN rpcOptions[c] \ DOMAIN given[c]

\* The caller's argument behind a field of a request
CallerArg(inv, field) ==
    IF inv.method = "setBounds" THEN inv.bounds[field] ELSE inv[field]
Measures == {"left", "top", "width", "height", "deltaWidth", "deltaHeight"}

\* C19: every left, top, width or height (or its delta) in the payload of a
\* request of resizeTo, resizeBy, showAt, moveTo or setBounds is the floor of
\* the argument the caller passed.
C19_AllFloored ==
    \A k \in 1..Len(wire) :
        \A field \in Measures \cap DOMAIN wire[k].payload :
            wire[k].payload[field] = MathFloor(CallerArg(ops[wire[k].op].inv, field))

\* C20: a create call that resolved did so with the handle whose identity is
\* {uuid of the hosting process, name of the options}, the identity under
\* which the call's listener was registered and stays registered until it
\* fires; the identity of a call's handle never changes once the call began.
C20_ResolvedHandle ==
    /\ [](\A c \in Calls :
            /\ IsFulfilled(outer[c]) =>
                  /\ outer[c].value.identity = [uuid |-> me.uuid, name |-> given[c].name]
                  /\ outer[c].value.identity = win[c]
                  /\ fired[c] >= 1
            /\ (Started(c) /\ fired[c] = 0) => c \in listeners[win[c].name])
    /\ [][\A c \in Calls : Started(c) => win'[c] = win[c]]_vars

\* Two create calls resolved, one with the handle of w1 and one with the
\* handle of w2
C20_Witness ==
    \E c, d \in Calls :
        /\ IsFulfilled(outer[c]) /\ IsFulfilled(outer[d])
        /\ outer[c].value.identity = [uuid |-> "app", name |-> "w1"]
        /\ outer[d].value.identity = [uuid |-> "app", name |-> "w2"]

\* C21 as stated: create is settled only when both the creation RPC and the
\* constructor-callback notification have settled.
C21_WaitsForBoth ==
    \A c \in Calls :
        IsSettled(outer[c]) =>
            /\ IsSettled(windowCreation[c])
            /\ IsSettled(pageResponse[c])

\* C21 as the code has it: create resolves only when both sources have
\* settled and never settles while the RPC is outstanding, but a rejected RPC
\* rejects it at once, with the RPC's error, whether or not the notification
\* has arrived.
C21_RejectsWithoutNotice ==
    \A c \in Calls :
        /\ IsFulfilled(outer[c]) =>
              IsFulfilled(windowCreation[c]) /\ IsFulfilled(pageResponse[c])
        /\ IsSettled(outer[c]) => IsSettled(windowCreation[c])
        /\ (IsRejected(outer[c]) /\ IsPending(pageResponse[c])) =>
              /\ IsRejected(windowCreation[c])
              /\ outer[c] = Rejected(windowCreation[c].value)
        /\ (IsRejected(windowCreation[c]) /\ Quiescent) => IsRejected(outer[c])

\* create rejected, and the caller saw it, with the notification outstanding
C21_Witness ==
    \E c \in Calls :
        /\ IsRejected(windowCreation[c])
        /\ IsPending(pageResponse[c]) /\ seen[c] = <<>>
        /\ IsRejected(observed[c])
        /\ Quiescent

\* C22: the child's opener-succeeded hook is invoked only for a creation
\* whose RPC was fulfilled and whose notification reported success.
C22_HookOnlyOnJointSuccess ==
    \A c \in Calls :
        hookCalls[c] > 0 =>
            /\ IsFulfilled(windowCreation[c])
            /\ IsFulfilled(pageResponse[c])
            /\ pageResponse[c].value.success

\* C23 as stated: in a successful creation the hook is attempted while the
\* caller's promise is still unresolved.
C23_HookBeforeResolve ==
    \A c \in Calls :
        (hookAttempts[c] > 0 /\ IsFulfilled(outer[c])) => IsPending(atHook[c])

\* C23 as the code has it: when the hook is attempted the caller's promise is
\* already settled, in a successful creation resolved with the handle.
C23_ResolveBeforeHook ==
    \A c \in Calls :
        hookAttempts[c] > 0 =>
            /\ IsSettled(atHook[c])
            /\ atHook[c] = outer[c]
            /\ pageResponse[c].value.success => atHook[c] = Fulfilled(Handle(c))

\* The hook of a successfully created child was invoked
C23_Witness ==
    \E c \in Calls :
        /\ hookCalls[c] = 1
        /\ atHook[c] = Fulfilled(Handle(c))

\* C24: from the moment a create call has issued its RPC its listener is
\* registered, so the first notification addressed to its window, whenever
\* it comes, runs the listener and resolves pageResponse.
C24_NoticeFindsListener ==
    \A c \in Calls :
        Started(c) =>
            /\ seen[c] = <<>> =>
                  /\ c \in listeners[win[c].name]
                  /\ IsPending(pageResponse[c])
            /\ seen[c] # <<>> =>
                  /\ fired[c] >= 1
                  /\ IsFulfilled(pageResponse[c])
                  /\ pageResponse[c].value.success = FirstNotice(c).success

\* The notification came before the reply to the creation RPC and was heard
C24_Witness ==
    \E c \in Calls :
        /\ IsPending(windowCreation[c])
        /\ Len(seen[c]) = 1
        /\ fired[c] = 1
        /\ IsFulfilled(pageResponse[c])

\* C25: once createChildWindow is fulfilled and a notification has been
\* delivered, create eventually settles and the caller gets the outcome:
\* the handle when the notification reported success, the failure payload
\* otherwise.
C25_NoticeCompletes ==
    \A c \in Calls :
        (IsFulfilled(windowCreation[c]) /\ seen[c] # <<>>)
            ~> (IsSettled(observed[c]) /\ observed[c] = Expected(c))

\* One create call was resolved and the caller saw it, a later one whose
\* notification reported failure was rejected
C25_Witness ==
    \E c, d \in Calls :
        /\ c < d
        /\ seen[c] # <<>> /\ seen[d] # <<>>
        /\ IsFulfilled(windowCreation[c]) /\ FirstNotice(c).success
        /\ IsFulfilled(observed[c])
        /\ IsFulfilled(windowCreation[d]) /\ ~FirstNotice(d).success
        /\ IsRejected(observed[d])

\* C28: two create calls with the same RPC result and the same notification
\* result, one with the RPC reply first and one with the notification first,
\* end in the same state with the same value (each its own handle when
\* resolved).
C28_OrderIndependent ==
    \A c, d \in Calls :
        (/\ Quiescent
         /\ arrivals[c] = <<"rpc", "notice">>
         /\ arrivals[d] = <<"notice", "rpc">>
         /\ windowCreation[c] = windowCreation[d]
         /\ pageResponse[c] = pageResponse[d]) =>
            /\ outer[c].state = outer[d].state
            /\ IsSettled(outer[c])
            /\ IsRejected(outer[c]) => outer[c].value = outer[d].value
            /\ IsFulfilled(outer[c]) =>
                  /\ outer[c].value = Handle(c)
                  /\ outer[d].value = Handle(d)
            /\ observed[c] = outer[c] /\ observed[d] = outer[d]

\* The RPC rejected and the notification reported success, in both orders
C28_Witness ==
    \E c, d \in Calls :
        /\ Quiescent
        /\ arrivals[c] = <<"rpc", "notice">>
        /\ arrivals[d] = <<"notice", "rpc">>
        /\ IsRejected(windowCreation[c])
        /\ windowCreation[c] = windowCreation[d]
        /\ pageResponse[c] = pageResponse[d]
        /\ pageResponse[c].value.success
        /\ outer[c] = outer[d]

\* C29: a create call that has settled has no listener left registered.
C29_ListenerGoneAfterSettle ==
    \A c \in Calls :
        IsSettled(outer[c]) => c \notin listeners[win[c].name]

\* The close invocations on handle h that the runtime acknowledged
AckedCloses(h) ==
    { i \in 1..Len(ops) :
        ops[i].handle = h /\ ops[i].inv.method = "close" /\ ops[i].reply.ok }

\* C26: a handle is poisoned exactly when a close on it has been
\* acknowledged: not while the close is in flight and not when the runtime
\* rejected it.  A rejected close rejects with the runtime's error, and an
\* operation invoked on a handle with no resolved close is sent.
C26_PoisonOnlyOnAck ==
    /\ \A h \in Handles : proto[h] = NullPrototype <=> AckedCloses(h) # {}
    /\ \A i \in 1..Len(ops) :
          (ops[i].inv.method = "close" /\ ops[i].reply \in Nacks) =>
              /\ ops[i].state = "rejected"
              /\ ops[i].value = ops[i].reply.error
    /\ \A j \in 1..Len(ops) :
          ~ops[j].afterClose =>
              /\ ops[j].state # "thrown"
              /\ Cardinality(RequestsOf(j)) = 1

\* A close was rejected, and a later getBounds on the same handle was sent
\* and answered; the handle has its prototype
C26_Witness ==
    \E i, j \in 1..Len(ops) :
        /\ i < j /\ ops[i].handle = ops[j].handle
        /\ ops[i].inv.method = "close" /\ ops[i].state = "rejected"
        /\ ops[i].request < ops[j].request
        /\ ops[j].inv.method = "getBounds" /\ ops[j].state = "fulfilled"
        /\ proto[ops[i].handle] = WindowPrototype

\* C27: every request on the wire carries the uuid and the name of the
\* handle that issued it, whatever the fields of the operation.
C27_IdentityLast ==
    \A k \in 1..Len(wire) :
        /\ wire[k].payload.uuid = IdentityOf(ops[wire[k].op].handle).uuid
        /\ wire[k].payload.name = IdentityOf(ops[wire[k].op].handle).name

\* setBounds was called with bounds that carry a uuid and a name, and the
\* request names the handle's window
C27_Witness ==
    \E k \in 1..Len(wire) :
        LET inv == ops[wire[k].op].inv
        IN /\ inv.method = "setBounds"
           /\ "name" \in DOMAIN inv.bounds
           /\ inv.bounds.name # wire[k].payload.name
           /\ wire[k].payload.left = inv.bounds.left
           /\ wire[k].payload.name = IdentityOf(ops[wire[k].op].handle).name

\* C30: a getGroup invoked on a handle before any close on it resolved
\* fulfils with the mapped group list when its reply arrives, also when the
\* handle has been poisoned in between.
C30_InFlightCompletes ==
    \A i \in 1..Len(ops) :
        (/\ ops[i].inv.method = "getGroup"
         /\ ~ops[i].afterClose
         /\ ops[i].reply \in RaceGroupAcks) =>
            /\ ops[i].state = "fulfilled"
            /\ ops[i].value = GroupResult(ops[i].reply.payload.data)

\* C31: within one create call the opener-succeeded hook is attempted at
\* most once (and so called at most once), however many notifications were
\* delivered to the call's window name and whichever of the RPC reply and
\* the first notification arrived first.
C31_HookAttemptedOnce ==
    \A c \in Calls :
        /\ hookAttempts[c] <= 1
        /\ hookCalls[c] <= hookAttempts[c]

\* Two calls whose completions arrived in opposite orders, one of which saw
\* two notifications; each attempted the hook once
C31_Witness ==
    \E c, d \in Calls :
        /\ Quiescent
        /\ arrivals[c] = <<"notice", "rpc">>
        /\ arrivals[d] = <<"rpc", "notice">>
        /\ Len(seen[c]) = 2
        /\ hookAttempts[c] = 1
        /\ hookAttempts[d] = 1

====
